---- MODULE Spec2Model ----
(***************************************************************************)
(* ArcadePay backend (src/server.py): the ledger of wallets, transactions  *)
(* and machines behind the HTTP handlers, one action per handler.          *)
(*                                                                         *)
(* Spec     handles requests one at a time: every handler is one action,   *)
(*          which leaves the database and the response that the handler,   *)
(*          an operator on the database, computes.                         *)
(* ConcSpec handles requests concurrently: a handler is cut at the points  *)
(*          where it reads from and commits to the database, every request *)
(*          working on its own ORM session (its own snapshot of the rows   *)
(*          it loaded).                                                    *)
(*                                                                         *)
(* Not modelled: the display columns (display_name, machine_name, name,    *)
(* location), and the read-only handlers health and get_history.           *)
(***************************************************************************)
EXTENDS Integers, Sequences, FiniteSets, TLC

VARIABLES
    users,      \* table User:        id |-> token_balance
    txns,       \* table Transaction: id |-> [user_id, machine_id, tokens, txn_type, status, created_at]
    machines,   \* table Machine:     id |-> tokens_per_credit
    nextTxn,    \* the next fresh transaction id (uuid4 never repeats)
    now,        \* datetime.utcnow(), in seconds
    resp,       \* the response of the request handled last
    reqs,       \* ConcSpec: the requests in flight, slot |-> position and session
    audit       \* history: per transaction, the refunds credited and the claims reported

vars == <<users, txns, machines, nextTxn, now, resp, reqs, audit>>

-----------------------------------------------------------------------------
(* Bounds of the model *)

MaxTxns == 2        \* transactions ever created
MaxSupply == 2      \* grants and purchases stop at this many tokens in all wallets
MaxDebt == 1        \* negative grants stop at this debt

(* Program constants *)

TTL == 60           \* seconds a reservation may be claimed

NoId == ""          \* a missing (falsy) id in a request body
UserIds == {"u1"}             \* the users with a wallet
ClaimUsers == {"u1", "u2"}     \* the user ids a claim may name
MachineIds == {"M001", "M002"}
TxnIds == 1..MaxTxns
Rates == {0, 2}                 \* tokens_per_credit values requests carry
Instants == {0, TTL, TTL + 1}   \* the times requests arrive at: ages 0, 1, 60, 61

MACHINE_SECRET == "secret"

-----------------------------------------------------------------------------
(* Helpers *)

Abs(n) == IF n < 0 THEN -n ELSE n

Max(a, b) == IF a >= b THEN a ELSE b

\* Python's a // b for b # 0: the floor of the quotient
PyFloorDiv(a, b) == IF b > 0 THEN a \div b ELSE (-a) \div (-b)

\* the row of `user_id` after get_or_create_user: created with balance 0 if absent
get_or_create_user(us, user_id) ==
    [x \in DOMAIN us \cup {user_id} |-> IF x \in DOMAIN us THEN us[x] ELSE 0]

\* UPDATE user SET token_balance = b WHERE id = user_id
SetBalance(us, user_id, b) ==
    [x \in DOMAIN us |-> IF x = user_id THEN b ELSE us[x]]

\* UPDATE transaction SET status = s WHERE id = id
SetStatus(tx, id, s) == [tx EXCEPT ![id].status = s]

\* a signature that leaves the token amount out
SigDataWithoutTokens(machine_id, user_id, tokens, txn_id) ==
    machine_id \o ":" \o user_id \o ":" \o ToString(txn_id)

\* f"{machine_id}:{user_id}:{tokens}:{txn_id}"
SigData(machine_id, user_id, tokens, txn_id) ==
    machine_id \o ":" \o user_id \o ":" \o ToString(tokens) \o ":" \o ToString(txn_id)

\* hashlib.sha256(...).hexdigest(), taken to be collision free
Sha256(s) == "sha256(" \o s \o ")"

ExpectedSignature(machine_id, user_id, tokens, txn_id) ==
    Sha256(MACHINE_SECRET \o SigData(machine_id, user_id, tokens, txn_id))

verify_machine_signature(machine_id, user_id, tokens, txn_id, signature) ==
    ExpectedSignature(machine_id, user_id, tokens, txn_id) = signature

Age(tx, id, clock) == clock - tx[id].created_at

\* a reservation that expires one second early
ExpiredAtTTL(tx, id, clock) == clock - tx[id].created_at >= TTL

\* age > 60
Expired(tx, id, clock) == Age(tx, id, clock) > TTL

\* max(1, tokens // (machine.tokens_per_credit if machine else 1))
Rate(ms, machine_id) == IF machine_id \in DOMAIN ms THEN ms[machine_id] ELSE 1

\* credits without the floor of one
CreditsUnfloored(tokens, rate) == PyFloorDiv(tokens, rate)

Credits(tokens, rate) == Max(1, PyFloorDiv(tokens, rate))

\* the NULL of a nullable column
Null == "null"

Insert(tx, id, row) ==
    [x \in DOMAIN tx \cup {id} |-> IF x = id THEN row ELSE tx[x]]

\* a guard that lets a failed transaction through
AlreadyVerified(tx, id) == tx[id].status = "verified"

\* txn.status != "pending"
AlreadyProcessed(tx, id) == tx[id].status # "pending"

\* a response: the HTTP status, the credits of a claim, the transactions of a poll
Response(code, credits, result) == [code |-> code, credits |-> credits, result |-> result]

\* the tokens in all wallets
RECURSIVE Supply(_)
Supply(us) ==
    IF DOMAIN us = {} THEN 0
    ELSE LET u == CHOOSE x \in DOMAIN us : TRUE IN
         us[u] + Supply([x \in DOMAIN us \ {u} |-> us[x]])

\* history: what was counted for transaction `id` so far
NoAudit == [refunds |-> 0, claims |-> 0]

AuditOf(au, id) == IF id \in DOMAIN au THEN au[id] ELSE NoAudit

Refunded(au, id) ==
    [x \in DOMAIN au \cup {id} |->
        IF x = id THEN [AuditOf(au, id) EXCEPT !.refunds = @ + 1] ELSE au[x]]

Claimed(au, id) ==
    [x \in DOMAIN au \cup {id} |->
        IF x = id THEN [AuditOf(au, id) EXCEPT !.claims = @ + 1] ELSE au[x]]

\* the database a handler works on, and what a handler leaves: the database
\* after its commits and its response
Current ==
    [users |-> users, txns |-> txns, machines |-> machines, nextTxn |-> nextTxn,
     audit |-> audit]

Reply(db, response) == [db |-> db, resp |-> response]

-----------------------------------------------------------------------------
(* Startup: db.create_all() and the seeded machine M001 *)

Init ==
    /\ users = <<>>
    /\ txns = <<>>
    /\ machines = [m \in {"M001"} |-> 1]
    /\ nextTxn = 1
    /\ now = 0
    /\ resp = Response(200, 0, <<>>)
    /\ reqs = <<>>
    /\ audit = <<>>

Tick ==
    /\ \E t \in Instants : t > now /\ now' = t
    /\ UNCHANGED <<users, txns, machines, nextTxn, resp, reqs, audit>>

-----------------------------------------------------------------------------
(* The handlers, each handled whole: from the database `db` at time `clock` *)
(* to the database and the response it leaves                              *)

get_wallet(db, user_id) ==
    Reply([db EXCEPT !.users = get_or_create_user(@, user_id)], Response(200, 0, <<>>))

(* give_tokens: user.token_balance += amount, on the balance `bal` it read *)
GiveCredit(us, user_id, bal, amount) == SetBalance(us, user_id, bal + amount)

give_tokens(db, user_id, amount) ==
    IF user_id = NoId
    THEN Reply(db, Response(400, 0, <<>>))
    ELSE LET us == get_or_create_user(db.users, user_id) IN
         Reply([db EXCEPT !.users = GiveCredit(us, user_id, us[user_id], amount)],
               Response(200, 0, <<>>))

(* app_pay *)
\* a check that is off by one
InsufficientOrEqual(bal, tokens) == bal <= tokens

\* user.token_balance < tokens
Insufficient(bal, tokens) == bal < tokens

\* user.token_balance -= tokens, on the balance `bal` it read
PayDebit(us, user_id, bal, tokens) == SetBalance(us, user_id, bal - tokens)

NewSpend(user_id, machine_id, tokens, clock) ==
    [user_id |-> user_id, machine_id |-> machine_id, tokens |-> -tokens,
     txn_type |-> "spend", status |-> "pending", created_at |-> clock]

app_pay(db, clock, user_id, machine_id, tokens) ==
    IF user_id = NoId \/ machine_id = NoId
    THEN Reply(db, Response(400, 0, <<>>))
    ELSE LET us == get_or_create_user(db.users, user_id) IN
         IF Insufficient(us[user_id], tokens)
         THEN Reply([db EXCEPT !.users = us], Response(402, 0, <<>>))
         ELSE Reply([db EXCEPT
                        !.users = PayDebit(us, user_id, us[user_id], tokens),
                        !.txns = Insert(@, db.nextTxn,
                                        NewSpend(user_id, machine_id, tokens, clock)),
                        !.nextTxn = @ + 1],
                    Response(200, 0, <<>>))

(* purchase_tokens: the payment token is read and never checked *)
PaymentTokens == {"demo", "unpaid"}

\* a purchase recorded as pending
NewPurchasePending(user_id, tokens, clock) ==
    [user_id |-> user_id, machine_id |-> Null, tokens |-> tokens,
     txn_type |-> "purchase", status |-> "pending", created_at |-> clock]

NewPurchase(user_id, tokens, clock) ==
    [user_id |-> user_id, machine_id |-> Null, tokens |-> tokens,
     txn_type |-> "purchase", status |-> "verified", created_at |-> clock]

PurchaseCredit(us, user_id, bal, tokens) == SetBalance(us, user_id, bal + tokens)

purchase_tokens(db, clock, user_id, tokens, payment_token) ==
    IF user_id = NoId \/ tokens <= 0
    THEN Reply(db, Response(400, 0, <<>>))
    ELSE LET us == get_or_create_user(db.users, user_id) IN
         Reply([db EXCEPT
                   !.users = PurchaseCredit(us, user_id, us[user_id], tokens),
                   !.txns = Insert(@, db.nextTxn, NewPurchase(user_id, tokens, clock)),
                   !.nextTxn = @ + 1],
               Response(200, 0, <<>>))

(* machine_verify *)
\* a refund that forgets the abs()
VerifyRefundSigned(us, user_id, bal, tokens) == SetBalance(us, user_id, bal + tokens)

\* the expired branch: txn.status = "failed"; user.token_balance += abs(txn.tokens)
VerifyRefund(us, user_id, bal, tokens) == SetBalance(us, user_id, bal + Abs(tokens))

\* the claimable branch: txn.status = "verified"; txn.machine_id = machine_id
VerifyAccept(tx, id, machine_id) ==
    [tx EXCEPT ![id].status = "verified", ![id].machine_id = machine_id]

\* the response after the commit: tokens // 0 raises ZeroDivisionError (a 500)
VerifyResponse(ms, machine_id, tokens) ==
    IF Rate(ms, machine_id) = 0
    THEN Response(500, 0, <<>>)
    ELSE Response(200, Credits(tokens, Rate(ms, machine_id)), <<>>)

machine_verify(db, clock, machine_id, user_id, tokens, txn_id, signature) ==
    IF ~verify_machine_signature(machine_id, user_id, tokens, txn_id, signature)
    THEN Reply(db, Response(403, 0, <<>>))
    ELSE IF txn_id \notin DOMAIN db.txns
    THEN Reply(db, Response(404, 0, <<>>))
    ELSE IF AlreadyProcessed(db.txns, txn_id)
    THEN Reply(db, Response(409, 0, <<>>))
    ELSE IF Expired(db.txns, txn_id, clock)
    THEN LET owner == db.txns[txn_id].user_id
             us == get_or_create_user(db.users, owner) IN
         Reply([db EXCEPT
                   !.txns = SetStatus(@, txn_id, "failed"),
                   !.users = VerifyRefund(us, owner, us[owner], db.txns[txn_id].tokens),
                   !.audit = Refunded(@, txn_id)],
               Response(410, 0, <<>>))
    ELSE LET response == VerifyResponse(db.machines, machine_id, tokens) IN
         Reply([db EXCEPT
                   !.txns = VerifyAccept(@, txn_id, machine_id),
                   !.audit = IF response.code = 200 THEN Claimed(@, txn_id) ELSE @],
               response)

(* clear_history: Transaction.query.filter_by(user_id=user_id).delete() *)
\* a delete that forgets the filter
ClearAll(tx, user_id) == [id \in {} |-> tx[id]]

ClearForUser(tx, user_id) ==
    [id \in {x \in DOMAIN tx : tx[x].user_id # user_id} |-> tx[id]]

clear_history(db, user_id) ==
    Reply([db EXCEPT !.txns = ClearForUser(@, user_id)], Response(200, 0, <<>>))

(* register_machine: an upsert of the rate, unchecked *)
Upsert(ms, machine_id, tpc) ==
    [m \in DOMAIN ms \cup {machine_id} |-> IF m = machine_id THEN tpc ELSE ms[m]]

register_machine(db, machine_id, tpc) ==
    IF machine_id = NoId
    THEN Reply(db, Response(400, 0, <<>>))
    ELSE Reply([db EXCEPT !.machines = Upsert(@, machine_id, tpc)], Response(200, 0, <<>>))

(* get_pending *)
\* filter_by(machine_id=machine_id, status="pending")
PendingFor(tx, machine_id) ==
    {id \in DOMAIN tx : tx[id].machine_id = machine_id /\ tx[id].status = "pending"}

\* order_by(created_at.asc()): rows created at the same time come in any order
OldestFirst(tx, ids) ==
    {s \in [1..Cardinality(ids) -> ids] :
        /\ \A i, j \in DOMAIN s : i # j => s[i] # s[j]
        /\ \A i, j \in DOMAIN s : i < j => tx[s[i]].created_at <= tx[s[j]].created_at}

\* the expired branch: t.status = "failed"; user.token_balance += abs(t.tokens)
PendingRefund(us, user_id, bal, tokens) == SetBalance(us, user_id, bal + Abs(tokens))

\* the claimable branch: t.status = "verified"
PendingAccept(tx, id) == SetStatus(tx, id, "verified")

\* {"id": t.id, "tokens": abs(t.tokens), "user_id": t.user_id}
PendingEntry(tx, id) ==
    [id |-> id, tokens |-> Abs(tx[id].tokens), user_id |-> tx[id].user_id]

\* one pass of the loop body, on st = [db, result]
PendingBody(st, id, clock) ==
    IF Expired(st.db.txns, id, clock)
    THEN LET owner == st.db.txns[id].user_id
             us == get_or_create_user(st.db.users, owner) IN
         [db |-> [st.db EXCEPT
                     !.users = PendingRefund(us, owner, us[owner], st.db.txns[id].tokens),
                     !.txns = SetStatus(@, id, "failed"),
                     !.audit = Refunded(@, id)],
          result |-> st.result]
    ELSE [db |-> [st.db EXCEPT
                     !.txns = PendingAccept(@, id),
                     !.audit = Claimed(@, id)],
          result |-> Append(st.result, PendingEntry(st.db.txns, id))]

RECURSIVE PendingLoop(_, _, _)
PendingLoop(st, rows, clock) ==
    IF rows = <<>> THEN st
    ELSE PendingLoop(PendingBody(st, Head(rows), clock), Tail(rows), clock)

\* `rows` is what the query returned
get_pending(db, clock, machine_id, rows) ==
    LET st == PendingLoop([db |-> db, result |-> <<>>], rows, clock) IN
    Reply(st.db, Response(200, 0, st.result))

-----------------------------------------------------------------------------
(* Requests handled one at a time *)

\* the inputs requests carry
GiveAmounts == {-1, 2}
PayTokens == -1..2
PurchaseTokens == {0, 1}
ClaimTokens == 1..2
RegisterIds == {"M002", NoId}

\* the signatures a claim may carry: the header's default, or what the holder of
\* the secret computed for these fields with any token amount
Signatures(machine_id, user_id, txn_id) ==
    {""} \cup {ExpectedSignature(machine_id, user_id, t, txn_id) : t \in ClaimTokens}

\* the request is handled: the database and the response are what it left
Handled(out) ==
    /\ users' = out.db.users
    /\ txns' = out.db.txns
    /\ machines' = out.db.machines
    /\ nextTxn' = out.db.nextTxn
    /\ audit' = out.db.audit
    /\ resp' = out.resp
    /\ UNCHANGED <<now, reqs>>

\* the bounds of the model on what a request may leave
Bounded(out) ==
    /\ out.db.nextTxn <= MaxTxns + 1
    /\ out.resp.code = 200 => Supply(out.db.users) <= MaxSupply
    /\ \A u \in DOMAIN out.db.users : out.db.users[u] >= -MaxDebt

Wallet(user_id) == Handled(get_wallet(Current, user_id))

Give(user_id, amount) ==
    LET out == give_tokens(Current, user_id, amount) IN Bounded(out) /\ Handled(out)

Pay(user_id, machine_id, tokens) ==
    LET out == app_pay(Current, now, user_id, machine_id, tokens) IN
    Bounded(out) /\ Handled(out)

Purchase(user_id, tokens, payment_token) ==
    LET out == purchase_tokens(Current, now, user_id, tokens, payment_token) IN
    Bounded(out) /\ Handled(out)

Verify(machine_id, user_id, tokens, txn_id, signature) ==
    Handled(machine_verify(Current, now, machine_id, user_id, tokens, txn_id, signature))

Clear(user_id) == Handled(clear_history(Current, user_id))

Register(machine_id, tpc) == Handled(register_machine(Current, machine_id, tpc))

Pending(machine_id) ==
    \E rows \in OldestFirst(txns, PendingFor(txns, machine_id)) :
        Handled(get_pending(Current, now, machine_id, rows))

Next ==
    \/ Tick
    \/ \E u \in UserIds : Wallet(u)
    \/ \E u \in UserIds \cup {NoId}, a \in GiveAmounts : Give(u, a)
    \/ \E u \in UserIds \cup {NoId}, m \in MachineIds \cup {NoId}, t \in PayTokens :
           Pay(u, m, t)
    \/ \E u \in UserIds \cup {NoId}, t \in PurchaseTokens, p \in PaymentTokens :
           Purchase(u, t, p)
    \/ \E m \in MachineIds, u \in ClaimUsers, t \in ClaimTokens, i \in TxnIds :
           \E sig \in Signatures(m, u, i) : Verify(m, u, t, i, sig)
    \/ \E u \in UserIds : Clear(u)
    \/ \E m \in RegisterIds, r \in Rates : Register(m, r)
    \/ \E m \in MachineIds : Pending(m)

Spec == Init /\ [][Next]_vars

-----------------------------------------------------------------------------
(* Requests handled concurrently.  Every request runs in its own session:  *)
(* it works on the rows as it loaded them and writes the values it         *)
(* computed from them at its commit.  A handler is one step up to each     *)
(* commit; between two steps of a request, steps of other requests run.    *)

Requests == {"r1", "r2"}
RaceUsers == {"u1"}
RaceMachines == {"M001"}
RaceGrants == {2}
RaceTokens == {1, 2}

Idle == [pc |-> "idle"]

Free(r) == reqs[r].pc \in {"idle", "done"}

Done(op, args, read, response) ==
    [pc |-> "done", op |-> op, args |-> args, read |-> read, resp |-> response,
     rivals |-> {}]

\* the transactions the requests in flight are about to insert
Inserting == Cardinality({r \in Requests : reqs[r].pc = "pay_commit"})

ConcInit ==
    /\ users = <<>>
    /\ txns = <<>>
    /\ machines = [m \in {"M001"} |-> 1]
    /\ nextTxn = 1
    /\ now = 0
    /\ resp = Response(200, 0, <<>>)
    /\ reqs = [r \in Requests |-> Idle]
    /\ audit = <<>>

(* give_tokens: lines 95 (read) and 96-97 (write) *)
GiveRead(r, user_id, amount) ==
    /\ Free(r)
    /\ users' = get_or_create_user(users, user_id)
    /\ Supply(users') + amount * (1 + Cardinality({q \in Requests : reqs[q].pc = "give_commit"}))
           <= MaxSupply
    /\ reqs' = [reqs EXCEPT ![r] = [pc |-> "give_commit", user_id |-> user_id,
                                    amount |-> amount, bal |-> users'[user_id]]]
    /\ UNCHANGED <<txns, machines, nextTxn, now, resp, audit>>

GiveCommit(r) ==
    /\ reqs[r].pc = "give_commit"
    /\ users' = GiveCredit(users, reqs[r].user_id, reqs[r].bal, reqs[r].amount)
    /\ reqs' = [reqs EXCEPT ![r] = Done("give", <<reqs[r].user_id, reqs[r].amount>>,
                                        reqs[r].bal, Response(200, 0, <<>>))]
    /\ UNCHANGED <<txns, machines, nextTxn, now, resp, audit>>

(* app_pay: lines 113-116 (read and check) and 118-133 (write) *)
\* history: the requests that have read this wallet for a spend and not yet written
Rivals(r, user_id) ==
    {q \in Requests \ {r} : reqs[q].pc = "pay_commit" /\ reqs[q].user_id = user_id}

PayRead(r, user_id, machine_id, tokens) ==
    /\ Free(r)
    /\ users' = get_or_create_user(users, user_id)
    /\ IF Insufficient(users'[user_id], tokens)
       THEN reqs' = [reqs EXCEPT ![r] = Done("pay", <<user_id, machine_id, tokens>>,
                                             users'[user_id], Response(402, 0, <<>>))]
       ELSE /\ nextTxn + Inserting <= MaxTxns
            /\ reqs' = [reqs EXCEPT ![r] = [pc |-> "pay_commit", user_id |-> user_id,
                            machine_id |-> machine_id, tokens |-> tokens,
                            bal |-> users'[user_id], rivals |-> Rivals(r, user_id)]]
    /\ UNCHANGED <<txns, machines, nextTxn, now, resp, audit>>

PayCommit(r) ==
    /\ reqs[r].pc = "pay_commit"
    /\ users' = PayDebit(users, reqs[r].user_id, reqs[r].bal, reqs[r].tokens)
    /\ txns' = Insert(txns, nextTxn,
                   NewSpend(reqs[r].user_id, reqs[r].machine_id, reqs[r].tokens, now))
    /\ nextTxn' = nextTxn + 1
    /\ reqs' = [reqs EXCEPT ![r] =
                   [Done("pay", <<@.user_id, @.machine_id, @.tokens>>, @.bal,
                         Response(200, 0, <<>>)) EXCEPT !.rivals = reqs[r].rivals]]
    /\ UNCHANGED <<machines, now, resp, audit>>

(* machine_verify: lines 187-197 (read and check), 199 (read of the wallet), *)
(* 198-201 (write of the refund) and 204-206 (write of the claim)            *)
VerifyRead(r, machine_id, user_id, tokens, txn_id, signature) ==
    /\ Free(r)
    /\ LET args == <<machine_id, user_id, tokens, txn_id>>
           row == txns[txn_id] IN
       IF ~verify_machine_signature(machine_id, user_id, tokens, txn_id, signature)
       THEN reqs' = [reqs EXCEPT ![r] = Done("verify", args, 0, Response(403, 0, <<>>))]
       ELSE IF txn_id \notin DOMAIN txns
       THEN reqs' = [reqs EXCEPT ![r] = Done("verify", args, 0, Response(404, 0, <<>>))]
       ELSE IF AlreadyProcessed(txns, txn_id)
       THEN reqs' = [reqs EXCEPT ![r] = Done("verify", args, 0, Response(409, 0, <<>>))]
       ELSE reqs' = [reqs EXCEPT ![r] =
                [pc |-> IF Expired(txns, txn_id, now) THEN "verify_wallet" ELSE "verify_claim",
                 machine_id |-> machine_id, user_id |-> user_id, tokens |-> tokens,
                 txn_id |-> txn_id, row |-> row]]
    /\ UNCHANGED <<users, txns, machines, nextTxn, now, resp, audit>>

VerifyWallet(r) ==
    /\ reqs[r].pc = "verify_wallet"
    /\ users' = get_or_create_user(users, reqs[r].row.user_id)
    /\ reqs' = [reqs EXCEPT ![r] = [pc |-> "verify_refund", machine_id |-> @.machine_id,
                    user_id |-> @.user_id, tokens |-> @.tokens, txn_id |-> @.txn_id,
                    row |-> @.row, bal |-> users'[@.row.user_id]]]
    /\ UNCHANGED <<txns, machines, nextTxn, now, resp, audit>>

VerifyRefundCommit(r) ==
    /\ reqs[r].pc = "verify_refund"
    /\ txns' = SetStatus(txns, reqs[r].txn_id, "failed")
    /\ users' = VerifyRefund(users, reqs[r].row.user_id, reqs[r].bal, reqs[r].row.tokens)
    /\ audit' = Refunded(audit, reqs[r].txn_id)
    /\ reqs' = [reqs EXCEPT ![r] =
                   Done("verify", <<@.machine_id, @.user_id, @.tokens, @.txn_id>>,
                        @.bal, Response(410, 0, <<>>))]
    /\ UNCHANGED <<machines, nextTxn, now, resp>>

VerifyClaimCommit(r) ==
    /\ reqs[r].pc = "verify_claim"
    /\ txns' = VerifyAccept(txns, reqs[r].txn_id, reqs[r].machine_id)
    /\ LET response == VerifyResponse(machines, reqs[r].machine_id, reqs[r].tokens) IN
       /\ audit' = IF response.code = 200 THEN Claimed(audit, reqs[r].txn_id) ELSE audit
       /\ reqs' = [reqs EXCEPT ![r] =
                      Done("verify", <<@.machine_id, @.user_id, @.tokens, @.txn_id>>,
                           0, response)]
    /\ UNCHANGED <<users, machines, nextTxn, now, resp>>

(* get_pending: lines 268-271 (the query), and per row 275-281 (read of the *)
(* wallet), 278-281 (write of the refund) or 284-286 (write of the claim)   *)
PendingQuery(r, machine_id) ==
    /\ Free(r)
    /\ \E rows \in OldestFirst(txns, PendingFor(txns, machine_id)) :
         reqs' = [reqs EXCEPT ![r] =
                     IF rows = <<>>
                     THEN Done("pending", <<machine_id>>, 0, Response(200, 0, <<>>))
                     ELSE [pc |-> "pending_loop", machine_id |-> machine_id,
                           rows |-> rows, result |-> <<>>]]
    /\ UNCHANGED <<users, txns, machines, nextTxn, now, resp, audit>>

\* after a row's commit: the next row, or the response
PendingNext(q, result) ==
    IF Len(q.rows) = 1
    THEN Done("pending", <<q.machine_id>>, 0, Response(200, 0, result))
    ELSE [pc |-> "pending_loop", machine_id |-> q.machine_id,
          rows |-> Tail(q.rows), result |-> result]

PendingRow(r) ==
    /\ reqs[r].pc = "pending_loop"
    /\ LET id == Head(reqs[r].rows) IN
       IF Expired(txns, id, now)
       THEN /\ users' = get_or_create_user(users, txns[id].user_id)
            /\ reqs' = [reqs EXCEPT ![r] = [pc |-> "pending_refund",
                            machine_id |-> @.machine_id, rows |-> @.rows,
                            result |-> @.result, bal |-> users'[txns[id].user_id]]]
            /\ UNCHANGED <<txns, audit>>
       ELSE /\ txns' = PendingAccept(txns, id)
            /\ audit' = Claimed(audit, id)
            /\ reqs' = [reqs EXCEPT ![r] =
                           PendingNext(@, Append(@.result, PendingEntry(txns, id)))]
            /\ UNCHANGED users
    /\ UNCHANGED <<machines, nextTxn, now, resp>>

PendingRefundCommit(r) ==
    /\ reqs[r].pc = "pending_refund"
    /\ LET id == Head(reqs[r].rows) IN
       /\ txns' = SetStatus(txns, id, "failed")
       /\ users' = PendingRefund(users, txns[id].user_id, reqs[r].bal, txns[id].tokens)
       /\ audit' = Refunded(audit, id)
    /\ reqs' = [reqs EXCEPT ![r] = PendingNext(@, @.result)]
    /\ UNCHANGED <<machines, nextTxn, now, resp>>

ConcNext ==
    \/ Tick
    \/ \E r \in Requests, u \in RaceUsers, a \in RaceGrants : GiveRead(r, u, a)
    \/ \E r \in Requests : GiveCommit(r)
    \/ \E r \in Requests, u \in RaceUsers, m \in RaceMachines, t \in RaceTokens :
           PayRead(r, u, m, t)
    \/ \E r \in Requests : PayCommit(r)
    \/ \E r \in Requests, m \in RaceMachines, u \in RaceUsers, t \in RaceTokens,
          i \in TxnIds :
           VerifyRead(r, m, u, t, i, ExpectedSignature(m, u, t, i))
    \/ \E r \in Requests : VerifyWallet(r)
    \/ \E r \in Requests : VerifyRefundCommit(r)
    \/ \E r \in Requests : VerifyClaimCommit(r)
    \/ \E r \in Requests, m \in RaceMachines : PendingQuery(r, m)
    \/ \E r \in Requests : PendingRow(r)
    \/ \E r \in Requests : PendingRefundCommit(r)

ConcSpec == ConcInit /\ [][ConcNext]_vars

-----------------------------------------------------------------------------
(* C2: of two reserveSpend requests for the same user, each for the whole   *)
(* balance (> 0) and handled concurrently (the second read the wallet       *)
(* before the first wrote it), exactly one succeeds and the other fails     *)
(* with InsufficientTokens (402).                                           *)
RacingSpends(r, q) ==
    /\ r # q
    /\ reqs[r].pc = "done" /\ reqs[r].op = "pay"
    /\ reqs[q].pc = "done" /\ reqs[q].op = "pay"
    /\ q \in reqs[r].rivals
    /\ reqs[r].args = reqs[q].args
    /\ reqs[r].read = reqs[q].read
    /\ reqs[r].args[3] = reqs[r].read
    /\ reqs[r].read > 0

C2_ExactlyOneSpendSucceeds ==
    \A r, q \in DOMAIN reqs :
        RacingSpends(r, q) =>
            {reqs[r].resp.code, reqs[q].resp.code} = {200, 402}

(* C3: under any interleaving of claims and polls, no transaction is        *)
(* refunded more than once, and none is both reported claimed and refunded. *)
C3_RefundedAtMostOnceAndNeverClaimed ==
    \A id \in DOMAIN audit :
        /\ audit[id].refunds <= 1
        /\ ~(audit[id].claims >= 1 /\ audit[id].refunds >= 1)

(* C4: in every step, a transaction that is verified or failed keeps its    *)
(* status: the only changes are pending -> verified and pending -> failed.  *)
C4_StatusMonotonic ==
    [][\A id \in DOMAIN txns \cap DOMAIN txns' :
          txns[id].status # "pending" => txns'[id].status = txns[id].status]_vars

-----------------------------------------------------------------------------
\* every wallet there was keeps its balance, and a wallet created starts at 0
BalancesUnchanged ==
    /\ \A u \in DOMAIN users : u \in DOMAIN users' /\ users'[u] = users[u]
    /\ \A u \in DOMAIN users' \ DOMAIN users : users'[u] = 0

(* C1: every wallet's balance is >= 0 in every reachable state. *)
C1_BalanceNonNegative == \A u \in DOMAIN users : users[u] >= 0

(* C9: a reserveSpend with tokens <= 0 is rejected as a validation error    *)
(* (400), creates no transaction and leaves every balance unchanged.        *)
C9_NonPositiveSpendRejected ==
    [][\A u \in UserIds, m \in MachineIds, t \in PayTokens :
          (t <= 0 /\ Pay(u, m, t)) =>
              /\ resp'.code = 400
              /\ txns' = txns
              /\ BalancesUnchanged]_vars

\* the balance a user has: 0 for a wallet that does not exist yet
BalanceOf(us, u) == IF u \in DOMAIN us THEN us[u] ELSE 0

\* the transactions `after` has and `before` has not
Created(before, after) == DOMAIN after.txns \ DOMAIN before.txns

(* C10: a reserveSpend of t >= 1 succeeds iff the balance (0 for an absent  *)
(* wallet) is >= t.  On success the balance goes down by exactly t and      *)
(* exactly one transaction is created: delta -t, spend, pending, for that   *)
(* user and machine.  On failure it answers InsufficientTokens (402),       *)
(* creates no transaction and leaves the balance as it was.                 *)
C10_ReserveSpend ==
    \A u \in ClaimUsers, m \in MachineIds, t \in ClaimTokens :
        LET out == app_pay(Current, now, u, m, t) IN
        IF BalanceOf(users, u) >= t
        THEN /\ out.resp.code = 200
             /\ out.db.users[u] = BalanceOf(users, u) - t
             /\ Cardinality(Created(Current, out.db)) = 1
             /\ \A id \in Created(Current, out.db) :
                  /\ out.db.txns[id].user_id = u
                  /\ out.db.txns[id].machine_id = m
                  /\ out.db.txns[id].tokens = -t
                  /\ out.db.txns[id].txn_type = "spend"
                  /\ out.db.txns[id].status = "pending"
             /\ \A id \in DOMAIN txns : out.db.txns[id] = txns[id]
        ELSE /\ out.resp.code = 402
             /\ out.db.txns = txns
             /\ out.db.users[u] = BalanceOf(users, u)

\* a reservation that took the whole balance, and a refused one after it
C10_Witness ==
    /\ resp.code = 402
    /\ \E id \in DOMAIN txns :
         /\ txns[id].status = "pending" /\ txns[id].tokens = -2
         /\ users[txns[id].user_id] = 0

-----------------------------------------------------------------------------
\* a reservation of t >= 1 tokens that nobody has claimed yet
IsReservation(id) ==
    /\ id \in DOMAIN txns
    /\ txns[id].txn_type = "spend"
    /\ txns[id].status = "pending"
    /\ txns[id].tokens <= -1

SecondsSince(id) == now - txns[id].created_at

\* the ids a poll returned
Returned(response) == {response.result[k].id : k \in DOMAIN response.result}

\* no other reservation of `user_id` is pending on `machine_id` in `db`
OnlyPending(db, id, user_id, machine_id) ==
    \A j \in DOMAIN db.txns \ {id} :
        ~(/\ db.txns[j].status = "pending"
          /\ db.txns[j].machine_id = machine_id
          /\ db.txns[j].user_id = user_id)

(* C5: a reservation of t >= 1 older than 60 s: the first correctly signed  *)
(* verifyClaim on it answers Expired (410), and the first poll of its       *)
(* machine does not return it; either sets it failed and credits exactly t  *)
(* to the wallet.  When the reservation was the last operation on the       *)
(* wallet, that is the balance the wallet had before the reservation.       *)
C5_ExpiredReservationRefunded ==
    /\ \A i \in TxnIds :
         (IsReservation(i) /\ SecondsSince(i) > 60) =>
             LET owner == txns[i].user_id
                 on == txns[i].machine_id IN
             /\ \A m \in MachineIds, u \in ClaimUsers, t \in ClaimTokens :
                  LET out == machine_verify(Current, now, m, u, t, i,
                                            ExpectedSignature(m, u, t, i)) IN
                  /\ out.resp.code = 410
                  /\ out.db.txns[i].status = "failed"
                  /\ out.db.users[owner] = users[owner] - txns[i].tokens
             /\ \A rows \in OldestFirst(txns, PendingFor(txns, on)) :
                  LET out == get_pending(Current, now, on, rows) IN
                  /\ i \notin Returned(out.resp)
                  /\ out.db.txns[i].status = "failed"
                  /\ OnlyPending(Current, i, owner, on)
                         => out.db.users[owner] = users[owner] - txns[i].tokens
    /\ \A u \in ClaimUsers, m \in MachineIds, t \in ClaimTokens :
         LET paid == app_pay(Current, now, u, m, t)
             late == now + 61 IN
         paid.resp.code = 200 =>
             \A i \in Created(Current, paid.db) :
                 /\ LET out == machine_verify(paid.db, late, m, u, t, i,
                                              ExpectedSignature(m, u, t, i)) IN
                    /\ out.resp.code = 410
                    /\ out.db.txns[i].status = "failed"
                    /\ out.db.users[u] = users[u]
                 /\ \A rows \in OldestFirst(paid.db.txns, PendingFor(paid.db.txns, m)) :
                      LET out == get_pending(paid.db, late, m, rows) IN
                      /\ i \notin Returned(out.resp)
                      /\ out.db.txns[i].status = "failed"
                      /\ OnlyPending(paid.db, i, u, m) => out.db.users[u] = users[u]

\* a reservation of the whole balance of 2, expired by a late claim: 2 again
C5_Witness ==
    /\ resp.code = 410
    /\ \E id \in DOMAIN txns :
         /\ txns[id].status = "failed" /\ txns[id].tokens = -2
         /\ AuditOf(audit, id).refunds = 1
         /\ users[txns[id].user_id] = 2

(* C6: a reservation of t >= 1 on a machine of rate r >= 1 (1 if unknown),  *)
(* claimed with its own four fields and a correct signature at age <= 60 s: *)
(* the claim succeeds with credits = max(1, t div r), the transaction is    *)
(* verified and the balance stays at its value after the reservation.       *)
C6_ClaimYieldsCredits ==
    /\ \A i \in TxnIds :
         (IsReservation(i) /\ SecondsSince(i) <= 60) =>
             LET m == txns[i].machine_id
                 u == txns[i].user_id
                 t == -txns[i].tokens
                 r == IF m \in DOMAIN machines THEN machines[m] ELSE 1
                 out == machine_verify(Current, now, m, u, t, i,
                                       ExpectedSignature(m, u, t, i)) IN
             r >= 1 =>
                 /\ out.resp.code = 200
                 /\ out.resp.credits = (IF t \div r >= 1 THEN t \div r ELSE 1)
                 /\ out.db.txns[i].status = "verified"
                 /\ out.db.users = users
    /\ \A u \in ClaimUsers, m \in MachineIds, t \in ClaimTokens, age \in {0, 60} :
         LET paid == app_pay(Current, now, u, m, t)
             r == IF m \in DOMAIN machines THEN machines[m] ELSE 1 IN
         (paid.resp.code = 200 /\ r >= 1) =>
             \A i \in Created(Current, paid.db) :
                 LET out == machine_verify(paid.db, now + age, m, u, t, i,
                                           ExpectedSignature(m, u, t, i)) IN
                 /\ out.resp.code = 200
                 /\ out.resp.credits = (IF t \div r >= 1 THEN t \div r ELSE 1)
                 /\ out.db.txns[i].status = "verified"
                 /\ out.db.users[u] = users[u] - t

\* one token claimed on a machine of rate 2 gives one credit
C6_Witness ==
    /\ resp.code = 200 /\ resp.credits = 1
    /\ "M002" \in DOMAIN machines /\ machines["M002"] = 2
    /\ \E id \in DOMAIN txns :
         /\ txns[id].status = "verified" /\ txns[id].tokens = -1
         /\ txns[id].machine_id = "M002"
         /\ AuditOf(audit, id).claims = 1

(* C7: after a correctly signed verifyClaim on a pending transaction, which *)
(* leaves it verified or failed, a second one with the same fields answers  *)
(* AlreadyProcessed (409), or NotFound (404) when the record was deleted in *)
(* between, and changes no balance and no transaction.                      *)
C7_SecondClaimRejected ==
    \A m \in MachineIds, u \in ClaimUsers, t \in ClaimTokens, i \in TxnIds :
        LET sig == ExpectedSignature(m, u, t, i)
            first == machine_verify(Current, now, m, u, t, i, sig) IN
        (i \in DOMAIN txns /\ txns[i].status = "pending") =>
            /\ first.resp.code \in {200, 410, 500}
            /\ first.db.txns[i].status \in {"verified", "failed"}
            /\ \A later \in {0, 61} :
                 LET second == machine_verify(first.db, now + later, m, u, t, i, sig) IN
                 /\ second.resp.code = 409
                 /\ second.db.users = first.db.users
                 /\ second.db.txns = first.db.txns
            /\ LET cleared == clear_history(first.db, txns[i].user_id).db
                   second == machine_verify(cleared, now, m, u, t, i, sig) IN
               /\ second.resp.code = 404
               /\ second.db.users = cleared.users
               /\ second.db.txns = cleared.txns

\* a claim turned away from a reservation that an earlier claim had expired
C7_Witness ==
    /\ resp.code = 409
    /\ \E id \in DOMAIN txns :
         txns[id].status = "failed" /\ AuditOf(audit, id).refunds = 1

(* C8: a verifyClaim whose signature was computed for another token amount  *)
(* (machine, user and transaction as presented) answers Unauthorized (403), *)
(* and a claim answered 403 changes no balance, transaction or machine.     *)
C8_TamperedTokensUnauthorized ==
    \A m \in MachineIds, u \in ClaimUsers, i \in TxnIds, t \in ClaimTokens :
        /\ \A signed \in ClaimTokens \ {t} :
             machine_verify(Current, now, m, u, t, i,
                            ExpectedSignature(m, u, signed, i)).resp.code = 403
        /\ \A sig \in Signatures(m, u, i) :
             LET out == machine_verify(Current, now, m, u, t, i, sig) IN
             out.resp.code = 403 => out.db = Current

\* a tampered claim turned away while the reservation it names is pending
C8_Witness ==
    /\ resp.code = 403
    /\ \E id \in DOMAIN txns : txns[id].status = "pending" /\ txns[id].tokens = -2

-----------------------------------------------------------------------------
(* C11: a recordPurchase whose payment proof is absent or not verified      *)
(* leaves every balance unchanged and creates no transaction.               *)
C11_UnverifiedPurchaseNotCredited ==
    [][\A u \in UserIds, t \in PurchaseTokens, p \in PaymentTokens \ {"demo"} :
          Purchase(u, t, p) => (txns' = txns /\ BalancesUnchanged)]_vars

(* C14: an accepted recordPurchase of t >= 1 raises the user's balance by   *)
(* exactly t and creates exactly one transaction: delta +t, purchase,       *)
(* verified, for that user; one of t <= 0 is rejected (400), changes no     *)
(* balance and creates no transaction.                                      *)
C14_PurchaseCredits ==
    \A u \in ClaimUsers, t \in -1..2, p \in PaymentTokens :
        LET out == purchase_tokens(Current, now, u, t, p) IN
        IF t >= 1
        THEN out.resp.code = 200 =>
             /\ out.db.users[u] = BalanceOf(users, u) + t
             /\ \A v \in DOMAIN users \ {u} : out.db.users[v] = users[v]
             /\ Cardinality(Created(Current, out.db)) = 1
             /\ \A id \in Created(Current, out.db) :
                  /\ out.db.txns[id].user_id = u
                  /\ out.db.txns[id].tokens = t
                  /\ out.db.txns[id].txn_type = "purchase"
                  /\ out.db.txns[id].status = "verified"
             /\ \A id \in DOMAIN txns : out.db.txns[id] = txns[id]
        ELSE /\ out.resp.code = 400
             /\ out.db.users = users
             /\ out.db.txns = txns

\* a purchase of one token, recorded and credited
C14_Witness ==
    /\ resp.code = 200
    /\ \E id \in DOMAIN txns :
         /\ txns[id].txn_type = "purchase" /\ txns[id].status = "verified"
         /\ txns[id].tokens = 1
         /\ users[txns[id].user_id] = 1

(* C12: a transaction is delivered by polls at most once: no two polls,     *)
(* handled one after the other or concurrently, return the same             *)
(* transaction.                                                             *)
C12_DeliveredAtMostOnce ==
    \A r, q \in DOMAIN reqs :
        (/\ r # q
         /\ reqs[r].pc = "done" /\ reqs[r].op = "pending"
         /\ reqs[q].pc = "done" /\ reqs[q].op = "pending")
        => Returned(reqs[r].resp) \cap Returned(reqs[q].resp) = {}

(* C16: every stored machine's tokens-per-credit rate is >= 1 in every       *)
(* reachable state.                                                         *)
C16_RatesPositive == \A m \in DOMAIN machines : machines[m] >= 1

(* C18: a correctly signed verifyClaim on a reservation (delta <= -1)       *)
(* succeeds (200) only if the reservation's owner, machine and amount are   *)
(* the ones presented, and the credits it returns are at most               *)
(* max(1, |delta| div rate) for the reservation's own delta.                *)
C18_ClaimMatchesReservation ==
    [][\A m \in MachineIds, u \in ClaimUsers, t \in ClaimTokens, i \in TxnIds :
          (/\ resp'.code = 200
           /\ i \in DOMAIN txns /\ txns[i].tokens <= -1
           /\ Verify(m, u, t, i, ExpectedSignature(m, u, t, i)))
          => LET d == IF txns[i].tokens < 0 THEN -txns[i].tokens ELSE txns[i].tokens
                 r == IF m \in DOMAIN machines THEN machines[m] ELSE 1 IN
             /\ txns[i].user_id = u
             /\ txns[i].machine_id = m
             /\ txns[i].tokens = -t
             /\ resp'.credits <= (IF d \div r >= 1 THEN d \div r ELSE 1)]_vars

\* the deltas of the transactions of `u` that are pending or verified
RECURSIVE LiveDeltas(_, _, _)
LiveDeltas(tx, u, ids) ==
    IF ids = {} THEN 0
    ELSE LET i == CHOOSE x \in ids : TRUE IN
         (IF tx[i].user_id = u /\ tx[i].status \in {"pending", "verified"}
          THEN tx[i].tokens ELSE 0) + LiveDeltas(tx, u, ids \ {i})

\* what the ledger holds `u` to have been granted: balance minus live deltas
GrantedTo(us, tx, u) == BalanceOf(us, u) - LiveDeltas(tx, u, DOMAIN tx)

(* C17: token conservation.  Each balance equals the tokens granted plus    *)
(* the deltas of the user's pending and verified transactions; so a step    *)
(* that creates or changes a transaction and deletes none (reserve,         *)
(* purchase, claim, expiry) leaves balance minus live deltas as it was.     *)
C17_TokenConservation ==
    [][(txns' # txns /\ DOMAIN txns \subseteq DOMAIN txns')
          => \A u \in ClaimUsers :
                 GrantedTo(users', txns', u) = GrantedTo(users, txns, u)]_vars

\* the transactions a poll of `machine_id` is to return
Claimable(machine_id) ==
    {i \in DOMAIN txns : /\ txns[i].status = "pending"
                         /\ txns[i].machine_id = machine_id
                         /\ now - txns[i].created_at <= 60}

(* C15: a poll of a machine, handled alone, returns exactly the pending     *)
(* transactions of that machine aged <= 60 s, oldest first, each once, with *)
(* its positive token amount and its user; afterwards no transaction of the *)
(* machine is pending, and the transactions of other machines and the       *)
(* processed ones are as they were.                                         *)
C15_PollReturnsClaimable ==
    [][\A m \in MachineIds :
          Pending(m) =>
              /\ Returned(resp') = Claimable(m)
              /\ Len(resp'.result) = Cardinality(Claimable(m))
              /\ \A j, k \in DOMAIN resp'.result :
                   j < k => txns[resp'.result[j].id].created_at
                                <= txns[resp'.result[k].id].created_at
              /\ \A k \in DOMAIN resp'.result :
                   /\ resp'.result[k].tokens > 0
                   /\ resp'.result[k].tokens \in {txns[resp'.result[k].id].tokens,
                                                  -txns[resp'.result[k].id].tokens}
                   /\ resp'.result[k].user_id = txns[resp'.result[k].id].user_id
              /\ \A i \in DOMAIN txns' :
                   ~(txns'[i].status = "pending" /\ txns'[i].machine_id = m)
              /\ \A i \in DOMAIN txns :
                   (txns[i].machine_id # m \/ txns[i].status # "pending")
                       => i \in DOMAIN txns' /\ txns'[i] = txns[i]]_vars

-----------------------------------------------------------------------------
(* Two wallets, and machine controllers that keep polling: the handlers of  *)
(* Spec on fewer inputs, every machine polled again and again.              *)

LedgerUsers == {"u1", "u2"}

LedgerNext ==
    \/ Tick
    \/ \E u \in LedgerUsers : Give(u, 1)
    \/ \E u \in LedgerUsers, m \in MachineIds : Pay(u, m, 1)
    \/ \E u \in LedgerUsers : Purchase(u, 1, "demo")
    \/ \E m \in MachineIds, u \in LedgerUsers, i \in TxnIds :
           Verify(m, u, 1, i, ExpectedSignature(m, u, 1, i))
    \/ \E u \in LedgerUsers : Clear(u)
    \/ \E m \in MachineIds : Pending(m)

LedgerSpec ==
    Init /\ [][LedgerNext]_vars /\ \A m \in MachineIds : WF_vars(Pending(m))

(* C13: clearHistory(u) removes every transaction of u and nothing else:    *)
(* afterwards no transaction of u exists, and every balance, the            *)
(* transactions of the other users and the machines are as they were.       *)
C13_ClearRemovesOwnOnly ==
    \A u \in LedgerUsers :
        LET out == clear_history(Current, u) IN
        /\ out.resp.code = 200
        /\ \A i \in DOMAIN out.db.txns : out.db.txns[i].user_id # u
        /\ DOMAIN out.db.txns \subseteq DOMAIN txns
        /\ \A i \in DOMAIN txns :
             txns[i].user_id # u => i \in DOMAIN out.db.txns /\ out.db.txns[i] = txns[i]
        /\ out.db.users = users
        /\ out.db.machines = machines

\* the first transaction was cleared, the second, of the other user, is there
C13_Witness ==
    /\ nextTxn = 3
    /\ DOMAIN txns = {2}
    /\ txns[2].user_id = "u2"
    /\ "u1" \in DOMAIN users

(* C19: every reservation is eventually verified or failed (and then        *)
(* refunded), the machines being polled again and again.                    *)
C19_EventuallyResolved ==
    \A i \in TxnIds :
        IsReservation(i) ~> (i \in DOMAIN txns /\ txns[i].status \in {"verified", "failed"})

====
